---- MODULE Spec2Model ----
(***************************************************************************)
(* Command dispatch and notification fan-out broker of                     *)
(* microservice_telegram: IoTQbroker.py (binding registry, dispatcher,     *)
(* device transport bridge), IMQbroker.py (status queue consumer and       *)
(* fan-out callback) and the LINE send primitive of IMLine.py.             *)
(***************************************************************************)
EXTENDS Integers, Sequences, FiniteSets, Bags, TLC

VARIABLES
    bindings,       \* IoTQbroker.bindings: dict device_id -> set(chat_id)
    client_pool,    \* IoTQbroker.client_pool: dict key -> client (TRUE = connected)
    greeted_users,  \* IMQbroker.greeted_users
    line_greeted,   \* IMLine.greeted_users (guarded by greeted_users_lock)
    outbox,         \* bag of texts handed to the chat platforms
    mqtt_log,       \* bag of publish calls on the device transport
    queue,          \* per consumer: the durable queue's pending deliveries
    cb,             \* per consumer: position and locals of the running callback
    settled,        \* deliveries settled by basic_ack / basic_nack
    nextId,         \* delivery tags handed out so far
    disp,           \* per dispatcher thread: position and locals of IoTParse_Message
    nCalls,         \* HTTP handler invocations (dispatches, /SendMsg relays) started so far
    lastGet,        \* last Device.get_bound_users call and what it returned
    link,           \* per consumer: its queue connection and the nested activations of
                    \* consume_queue (cq) and init_rabbitmq (ir) on its thread's stack
    lastText,       \* per dispatcher thread: the message_text argument of its last call,
                    \* as passed (line 167 overwrites it)
    device_log,     \* transport messages handled by the device-side handlers, with what
                    \* each handler did
    greeted_users_lock, \* IMLine.greeted_users_lock: the call that holds it, 0 when free
    line_calls,     \* the activations of IMLine.send_message, one per caller thread
    processed_messages  \* raspberrypi_iot_device.processed_messages

vars == << bindings, client_pool, greeted_users, line_greeted, outbox, mqtt_log,
           queue, cb, settled, nextId, disp, nCalls, lastGet, link, lastText, device_log,
           greeted_users_lock, line_calls, processed_messages >>

----------------------------------------------------------------------------
(* Bounds and input sets *)

MaxEvents == 2
MaxCalls == 2
MaxDrops == 1
MaxSenders == 3
MaxDeliveries == 2

NoneV == "None"
Chats == {"u1", "u2"}
Consumers == {"line", "telegram"}
Dispatchers == {"w1", "w2"}
DispatchPlatforms == {"line", "telegram"}
\* the platform a chat id belongs to, where a specification ties the two
HomePlatform(chat) == IF chat = "u1" THEN "line" ELSE "telegram"

SUPPORTED_DEVICES ==
    {"esp32_light_001", "esp32_fan_002", "raspberrypi_light_001", "raspberrypi_fan_002"}
DEVICE_ID == "esp32_light_001"
UnknownDevice == "toaster_9"
EventDevices == {DEVICE_ID}
\* the thread of consume_line_queue
LineConsumer == "line"

Texts ==
    { <<"hi">>, <<"blah">>,
      <<"turn", "on">>, <<"turn", "off", "toaster_9">>,
      <<"/status", "esp32_fan_002">>,
      <<"/bind", "esp32_light_001">>, <<"/bind", "toaster_9">> }

----------------------------------------------------------------------------
(* Binding registry *)

\* dict.get(device_id, set())
Get(b, d) == IF d \in DOMAIN b THEN b[d] ELSE {}

\* bindings[device_id] = set()
SetEmpty(b, d) == [x \in (DOMAIN b) \cup {d} |-> IF x = d THEN {} ELSE b[x]]

\* Device.bind_user line 39: if self.device_id not in bindings
NeedsCreate(b, d) == d \notin DOMAIN b

\* bindings[device_id].add(chat_id)
AddUser_everyone(b, d, s) == [b EXCEPT ![d] = @ \cup Chats]
AddUser(b, d, s) == [b EXCEPT ![d] = @ \cup {s}]

\* Device.bind_user line 43: return True (s is the caller, b the registry before the add)
bind_user_returns_fresh(b, d, s) == s \notin Get(b, d)
bind_user_returns(b, d, s) == TRUE

\* Device.get_bound_users: the returned set and the registry it leaves
get_bound_users_setdefault(b, d) ==
    [ret |-> Get(b, d), b |-> IF d \in DOMAIN b THEN b ELSE SetEmpty(b, d)]
get_bound_users(b, d) == [ret |-> Get(b, d), b |-> b]

----------------------------------------------------------------------------
(* Device transport bridge *)

\* MessageAPI.__init__: self.chat_id = chat_id or "default"
PoolKey(chat) == IF chat = NoneV THEN "default" ELSE chat

\* MessageAPI.__init__: reuse the pooled client, or create one, pool it and connect
PoolAfter(pool, chat, ok) ==
    IF PoolKey(chat) \in DOMAIN pool THEN pool
    ELSE [k \in (DOMAIN pool) \cup {PoolKey(chat)} |->
             IF k = PoolKey(chat) THEN ok ELSE pool[k]]

\* MessageAPI.connect raises after max_retries failed attempts; Device.__init__ re-raises
DeviceInitRaises(pool, chat, ok) == PoolKey(chat) \notin DOMAIN pool /\ ~ok

\* attributes a Device instance carries after __init__
DeviceAttrs ==
    {"name", "device_id", "chat_id", "platform", "manufacturer", "device_type", "message_api"}

----------------------------------------------------------------------------
(* Chat send primitives *)

\* a text on its way to a chat: ev names the status event it reports (id, originator)
Msg(to, platform, kind, cbGreet, relayGreet, ev) ==
    [to |-> to, platform |-> platform, kind |-> kind,
     cbGreet |-> cbGreet, relayGreet |-> relayGreet, ev |-> ev]
NoEvent == [id |-> 0, orig |-> NoneV]
EvOf(m) == [id |-> m.id, orig |-> m.chat_id]

\* IMLine.check_and_add_greeted_user, under greeted_users_lock
check_and_add_greeted_user(lg, to) == [first |-> to \notin lg, lg |-> lg \cup {to}]

\* IMLine.send_message: prefixes "Hi, {display_name}" to the first text it pushes to `to`,
\* whatever the text
line_send_message(ob, lg, to, kind, cbGreet, ev) ==
    [outbox |-> ob (+) SetToBag({Msg(to, "line", kind, cbGreet,
                                     check_and_add_greeted_user(lg, to).first, ev)}),
     lg |-> check_and_add_greeted_user(lg, to).lg]

\* IMQbroker.send_message: telegram -> Telegram API, line -> GET /SendMsg of IMLine,
\* any other platform -> nothing is sent
send_message(ob, lg, to, platform, kind, cbGreet, ev) ==
    IF platform = "telegram"
    THEN [outbox |-> ob (+) SetToBag({Msg(to, platform, kind, cbGreet, FALSE, ev)}),
          lg |-> lg]
    ELSE IF platform = "line"
    THEN line_send_message(ob, lg, to, kind, cbGreet, ev)
    ELSE [outbox |-> ob, lg |-> lg]

----------------------------------------------------------------------------
(* Command parser. A message text is a sequence of words with one blank between *)
(* neighbours; a " " token is one more whitespace character at that place        *)

Blank == " "

\* str.lower() on the words of the input alphabet
LowerWord_keep(t) == t
LowerWord(t) ==
    CASE t \in {"TURN", "Turn"} -> "turn"
      [] t \in {"ON", "On"} -> "on"
      [] t \in {"OFF", "Off"} -> "off"
      [] t \in {"GET", "Get"} -> "get"
      [] t \in {"STATUS", "Status"} -> "status"
      [] t \in {"HI", "Hi"} -> "hi"
      [] t = "/BIND" -> "/bind"
      [] t = "/Enable" -> "/enable"
      [] t = "/STATUS" -> "/status"
      [] t = "ESP32_FAN_002" -> "esp32_fan_002"
      [] t = "Esp32_Light_001" -> "esp32_light_001"
      [] OTHER -> t
lower(s) == [i \in 1..Len(s) |-> LowerWord(s[i])]

\* str.strip(): whitespace at both ends goes, whitespace inside stays
RECURSIVE lstrip(_)
lstrip(s) == IF s # << >> /\ Head(s) = Blank THEN lstrip(Tail(s)) ELSE s
RECURSIVE rstrip(_)
rstrip(s) ==
    IF s # << >> /\ s[Len(s)] = Blank THEN rstrip(SubSeq(s, 1, Len(s) - 1)) ELSE s
strip_left_only(s) == lstrip(s)
strip(s) == rstrip(lstrip(s))

\* line 167: message_text = message_text.lower().strip()
lower_strip(s) == strip(lower(s))

(* Lines 171-250 on the text after line 167 *)

\* message_text in ["hi", "hello", "/start"]
IsHelp(text) == text \in {<<"hi">>, <<"hello">>, <<"/start">>}

\* re.match(r"^/bind\s+([\w_]+)$", message_text)
BindMatch(text) == Len(text) = 2 /\ text[1] = "/bind"

\* re.match(r"^(turn on|/enable)(\s+([\w_]+))?$", message_text) and its group(3)
TwoWord(text, a, b) == Len(text) \in {2, 3} /\ text[1] = a /\ text[2] = b
OneWord(text, a) == Len(text) \in {1, 2} /\ text[1] = a
EnableMatch(text) == TwoWord(text, "turn", "on") \/ OneWord(text, "/enable")
DisableMatch(text) == TwoWord(text, "turn", "off") \/ OneWord(text, "/disable")
StatusMatch(text) == TwoWord(text, "get", "status") \/ OneWord(text, "/status")
Group3(text) ==
    IF text[1] \in {"turn", "get"}
    THEN (IF Len(text) = 3 THEN text[3] ELSE NoneV)
    ELSE (IF Len(text) = 2 THEN text[2] ELSE NoneV)

\* device_id the command addresses: group(3) of the first match that has one, else the default
TargetOf_default(text, default) == IF BindMatch(text) THEN text[2] ELSE default
TargetOf(text, default) ==
    IF BindMatch(text) THEN text[2]
    ELSE IF EnableMatch(text) /\ Group3(text) # NoneV THEN Group3(text)
    ELSE IF DisableMatch(text) /\ Group3(text) # NoneV THEN Group3(text)
    ELSE IF StatusMatch(text) /\ Group3(text) # NoneV THEN Group3(text)
    ELSE default

\* the branch of IoTParse_Message a text takes
KindOf(text) ==
    IF IsHelp(text) THEN "Help"
    ELSE IF BindMatch(text) THEN "Bind"
    ELSE IF EnableMatch(text) THEN "Enable"
    ELSE IF DisableMatch(text) THEN "Disable"
    ELSE IF StatusMatch(text) THEN "GetStatus"
    ELSE "Unknown"

\* line 219: if device_id not in config.SUPPORTED_DEVICES
InCatalog(d) == d \in SUPPORTED_DEVICES

\* line 189, the same test in the bind branch
BindInCatalog_any(d) == TRUE
BindInCatalog(d) == d \in SUPPORTED_DEVICES

\* the device id of the text passes the catalog test of its branch
DeviceAccepted(text) ==
    IF BindMatch(text) THEN BindInCatalog(TargetOf(text, DEVICE_ID))
    ELSE InCatalog(TargetOf(text, DEVICE_ID))

\* Device.__init__: manufacturer and device_type from substrings of device_id
Manufacturer(d) ==
    IF d \in {"raspberrypi_light_001", "raspberrypi_fan_002"} THEN "raspberrypi" ELSE "esp32"
DeviceType(d) ==
    IF d \in {"esp32_light_001", "raspberrypi_light_001"} THEN "light" ELSE "fan"

\* Device.enable / disable / get_status: topic and payload handed to MessageAPI.send_message
Verb(kind) ==
    IF kind = "Enable" THEN "enable" ELSE IF kind = "Disable" THEN "disable" ELSE "get_status"
Command_verb(kind) == Verb(kind)
Command(kind) ==
    IF kind = "Enable" THEN "on" ELSE IF kind = "Disable" THEN "off" ELSE "get_status"
Publish(kind, d, chat, platform) ==
    [topic |-> <<Manufacturer(d), DeviceType(d), Verb(kind)>>,
     command |-> Command(kind), chat_id |-> chat, platform |-> platform, device_id |-> d]

\* a publish call as the transport log keeps it: accepted is whether the client had a
\* connection to hand the message to
Published(p, accepted) == [msg |-> p, accepted |-> accepted]

\* MessageAPI.send_message lines 148-154: client.publish() on a client without a connection
\* raises nothing (it returns an error code in a result nobody reads), so True is
\* returned whether or not the message was accepted
transport_send_returns(accepted) == TRUE

\* lines 226-247: whether IoTParse_Message waits for the device's StatusEvent before it
\* replies and returns
AwaitsStatusEvent_true == TRUE
AwaitsStatusEvent == FALSE
AfterPublishPc == IF AwaitsStatusEvent THEN "await_status" ELSE "idle"
CommandKinds == {"Enable", "Disable", "GetStatus"}

----------------------------------------------------------------------------
(* Command dispatcher: IoTParse_Message(message_text, device, chat_id, platform), *)
(* called with the process's default device (device_id = config.DEVICE_ID)        *)

\* pre and solo are history: the target's subscribers when the call entered, and whether
\* no other dispatcher thread was inside IoTParse_Message at that moment
Call(n, chat, platform, text, pc, result, pre, solo) ==
    [pc |-> pc, n |-> n, chat |-> chat, platform |-> platform, text |-> text,
     kind |-> KindOf(text), target |-> TargetOf(text, DEVICE_ID), result |-> result,
     pre |-> pre, solo |-> solo]

Result(ok, tag) == [success |-> ok, tag |-> tag]

\* a dispatcher thread outside IoTParse_Message
DispIdle == Call(0, NoneV, NoneV, << >>, "idle", Result(FALSE, "none"), {}, TRUE)

\* texts sent back to the caller's chat
ReplyOk(kind) ==
    IF kind = "Enable" THEN "received_on"
    ELSE IF kind = "Disable" THEN "received_off" ELSE "received_status"

ReplyAt(pc, w, n, chat, platform, text, kind, result, pre, solo) ==
    /\ outbox' = send_message(outbox, line_greeted, chat, platform, kind, FALSE, NoEvent).outbox
    /\ line_greeted' = send_message(outbox, line_greeted, chat, platform, kind, FALSE, NoEvent).lg
    /\ disp' = [disp EXCEPT ![w] = Call(n, chat, platform, text, pc, result, pre, solo)]

Reply(w, n, chat, platform, text, kind, result, pre, solo) ==
    ReplyAt("idle", w, n, chat, platform, text, kind, result, pre, solo)

\* lines 232-233, 239-240, 246-247: the result when the bridge's send returned False
FailTag(kind) ==
    IF kind = "Enable" THEN "Failed to enable device"
    ELSE IF kind = "Disable" THEN "Failed to disable device"
    ELSE "Failed to get device status"

Pre(text) == Get(bindings, TargetOf(text, DEVICE_ID))
Solo(w) == \A x \in Dispatchers \ {w} : disp[x].pc = "idle"

\* lines 171-182: help text
DispatchHelp(w, chat, platform, text) ==
    /\ IsHelp(text)
    /\ Reply(w, nCalls + 1, chat, platform, text, "help", Result(TRUE, "Help"),
             Pre(text), Solo(w))
    /\ UNCHANGED << bindings, client_pool, mqtt_log >>

\* lines 189-192 and 219-222: device id outside the catalog
DispatchInvalidDevice(w, chat, platform, text) ==
    /\ ~IsHelp(text)
    /\ ~DeviceAccepted(text)
    /\ Reply(w, nCalls + 1, chat, platform, text, "invalid_device", Result(FALSE, "Invalid device_id"),
             Pre(text), Solo(w))
    /\ UNCHANGED << bindings, client_pool, mqtt_log >>

\* lines 193/224 raising inside Device.__init__, caught at 251-255
DispatchError(w, chat, platform, text) ==
    /\ ~IsHelp(text)
    /\ DeviceAccepted(text)
    /\ DeviceInitRaises(client_pool, chat, FALSE)
    /\ client_pool' = PoolAfter(client_pool, chat, FALSE)
    /\ Reply(w, nCalls + 1, chat, platform, text, "error", Result(FALSE, "Error processing command"),
             Pre(text), Solo(w))
    /\ UNCHANGED << bindings, mqtt_log >>

\* lines 193-194 with bind_user entered: line 39 has been evaluated
DispatchBind(w, chat, platform, text) ==
    /\ BindMatch(text)
    /\ DeviceAccepted(text)
    /\ client_pool' = PoolAfter(client_pool, chat, TRUE)
    /\ disp' = [disp EXCEPT ![w] =
                  Call(nCalls + 1, chat, platform, text,
                       IF NeedsCreate(bindings, TargetOf(text, DEVICE_ID))
                       THEN "bind_create" ELSE "bind_add",
                       Result(FALSE, "pending"), Pre(text), Solo(w))]
    /\ UNCHANGED << bindings, mqtt_log, outbox, line_greeted >>

\* lines 224-247: enable / disable / get_status published on the device transport
DispatchCommand(w, chat, platform, text) ==
    /\ KindOf(text) \in CommandKinds
    /\ DeviceAccepted(text)
    /\ client_pool' = PoolAfter(client_pool, chat, TRUE)
    /\ LET accepted == PoolAfter(client_pool, chat, TRUE)[PoolKey(chat)]
           ok == transport_send_returns(accepted)
       IN /\ mqtt_log' = mqtt_log (+)
                SetToBag({Published(Publish(KindOf(text), TargetOf(text, DEVICE_ID),
                                            chat, platform), accepted)})
          /\ ReplyAt(AfterPublishPc, w, nCalls + 1, chat, platform, text,
                     IF ok THEN ReplyOk(KindOf(text)) ELSE "failed_cmd",
                     IF ok THEN Result(TRUE, KindOf(text))
                     ELSE Result(FALSE, FailTag(KindOf(text))),
                     Pre(text), Solo(w))
    /\ UNCHANGED bindings

\* lines 224 and 248-250: no pattern matched
DispatchUnknown(w, chat, platform, text) ==
    /\ KindOf(text) = "Unknown"
    /\ DeviceAccepted(text)
    /\ client_pool' = PoolAfter(client_pool, chat, TRUE)
    /\ Reply(w, nCalls + 1, chat, platform, text, "invalid_cmd", Result(FALSE, "Invalid command"),
             Pre(text), Solo(w))
    /\ UNCHANGED << bindings, mqtt_log >>

IoTParse_Message(w, chat, platform, message_text) ==
    /\ disp[w].pc = "idle"
    /\ nCalls < MaxCalls
    /\ nCalls' = nCalls + 1
    /\ lastText' = [lastText EXCEPT ![w] = message_text]
    /\ LET text == lower_strip(message_text)
       IN \/ DispatchHelp(w, chat, platform, text)
          \/ DispatchInvalidDevice(w, chat, platform, text)
          \/ DispatchError(w, chat, platform, text)
          \/ DispatchBind(w, chat, platform, text)
          \/ DispatchCommand(w, chat, platform, text)
          \/ DispatchUnknown(w, chat, platform, text)
    /\ UNCHANGED << greeted_users, queue, cb, settled, nextId, lastGet, device_log, link,
                    greeted_users_lock, line_calls, processed_messages >>

\* Device.bind_user line 40: bindings[self.device_id] = set()
BindCreate(w) ==
    /\ disp[w].pc = "bind_create"
    /\ bindings' = SetEmpty(bindings, disp[w].target)
    /\ disp' = [disp EXCEPT ![w].pc = "bind_add"]
    /\ UNCHANGED << client_pool, greeted_users, line_greeted, outbox, mqtt_log,
                    queue, cb, settled, nextId, nCalls, lastGet, lastText, device_log, link,
                    greeted_users_lock, line_calls, processed_messages >>

\* Device.bind_user lines 41-43, then lines 194-201 of IoTParse_Message
BindAdd(w) ==
    /\ disp[w].pc = "bind_add"
    /\ bindings' = AddUser(bindings, disp[w].target, disp[w].chat)
    /\ IF bind_user_returns(bindings, disp[w].target, disp[w].chat)
       THEN Reply(w, disp[w].n, disp[w].chat, disp[w].platform, disp[w].text, "bind_ok",
                  Result(TRUE, "Bind"), disp[w].pre, disp[w].solo)
       ELSE Reply(w, disp[w].n, disp[w].chat, disp[w].platform, disp[w].text, "bind_fail",
                  Result(FALSE, "Failed to bind to device"), disp[w].pre, disp[w].solo)
    /\ UNCHANGED << client_pool, greeted_users, mqtt_log,
                    queue, cb, settled, nextId, nCalls, lastGet, lastText, device_log, link,
                    greeted_users_lock, line_calls, processed_messages >>

\* Device.get_bound_users on a Device for device id d
GetBoundUsers(d) ==
    /\ lastGet' = [d |-> d, ret |-> get_bound_users(bindings, d).ret]
    /\ bindings' = get_bound_users(bindings, d).b
    /\ UNCHANGED << client_pool, greeted_users, line_greeted, outbox, mqtt_log,
                    queue, cb, settled, nextId, disp, nCalls, link, lastText, device_log,
                    greeted_users_lock, line_calls, processed_messages >>

\* IMLine.webhook lines 142-150 for one text event of chat: Device(...) for the chat at
\* line 143 (its client is pooled and connected), then the call of line 144, which passes
\* user_id= and username= to an IoTParse_Message that takes neither: TypeError, caught at
\* line 148, and the error text is pushed to the chat
webhook(w, chat, text) ==
    /\ disp[w].pc = "idle"
    /\ nCalls < MaxCalls
    /\ nCalls' = nCalls + 1
    /\ \E ok \in BOOLEAN : client_pool' = PoolAfter(client_pool, chat, ok)
    /\ outbox' = line_send_message(outbox, line_greeted, chat, "error", FALSE, NoEvent).outbox
    /\ line_greeted' = line_send_message(outbox, line_greeted, chat, "error", FALSE, NoEvent).lg
    /\ disp' = [disp EXCEPT ![w] =
                  Call(nCalls + 1, chat, "line", text, "idle",
                       Result(FALSE, "An error occurred"), Pre(text), Solo(w))]
    /\ UNCHANGED << bindings, greeted_users, mqtt_log, queue, cb, settled, nextId, lastGet,
                    lastText, device_log, link,
                    greeted_users_lock, line_calls, processed_messages >>

\* IMLine.send_message_route: GET /SendMsg?user_id=to&message=<text of that kind>
send_message_route(to, kind) ==
    /\ nCalls < MaxCalls
    /\ nCalls' = nCalls + 1
    /\ outbox' = line_send_message(outbox, line_greeted, to, kind, FALSE, NoEvent).outbox
    /\ line_greeted' = line_send_message(outbox, line_greeted, to, kind, FALSE, NoEvent).lg
    /\ UNCHANGED << bindings, client_pool, greeted_users, mqtt_log, queue, cb, settled,
                    nextId, disp, lastGet, lastText, device_log, link,
                    greeted_users_lock, line_calls, processed_messages >>

----------------------------------------------------------------------------
(* IMLine.send_message step by step, one activation per Flask request thread *)
(* (app.run(threaded=True)): the calls share greeted_users and its lock       *)

LineCall(pc, to, kind, ret) == [pc |-> pc, to |-> to, kind |-> kind, ret |-> ret]

\* the activations that are not the n-th one stay as they are
OtherLineState ==
    UNCHANGED << bindings, client_pool, greeted_users, mqtt_log, queue, cb, settled, nextId,
                 disp, nCalls, lastGet, link, lastText, device_log, processed_messages >>

\* lines 71-76: a request thread enters send_message(to, text) with the access token set
LineSendEnter(to, kind) ==
    /\ Len(line_calls) < MaxSenders
    /\ line_calls' = Append(line_calls, LineCall("acquire", to, kind, FALSE))
    /\ UNCHANGED << line_greeted, outbox, greeted_users_lock >>
    /\ OtherLineState

\* threading.Lock: a thread enters `with greeted_users_lock:` when no thread holds it
LockFree_always(l) == TRUE
LockFree(l) == l = 0

\* line 40: with greeted_users_lock
LockAcquire(n) ==
    /\ line_calls[n].pc = "acquire"
    /\ LockFree(greeted_users_lock)
    /\ greeted_users_lock' = n
    /\ line_calls' = [line_calls EXCEPT ![n].pc = "test"]
    /\ UNCHANGED << line_greeted, outbox >>
    /\ OtherLineState

\* line 41: if chat_id not in greeted_users
GreetedTest(n) ==
    /\ line_calls[n].pc = "test"
    /\ line_calls' = [line_calls EXCEPT ![n].pc = "add",
                                        ![n].ret = line_calls[n].to \notin line_greeted]
    /\ UNCHANGED << line_greeted, outbox, greeted_users_lock >>
    /\ OtherLineState

\* lines 42-44: greeted_users.add(chat_id) when the test passed, then the return leaves
\* the with block and releases the lock
GreetedAddReturn(n) ==
    /\ line_calls[n].pc = "add"
    /\ line_greeted' = IF line_calls[n].ret THEN line_greeted \cup {line_calls[n].to}
                       ELSE line_greeted
    /\ greeted_users_lock' = 0
    /\ line_calls' = [line_calls EXCEPT ![n].pc = "post"]
    /\ UNCHANGED outbox
    /\ OtherLineState

\* lines 77-87: the greeting is prefixed when check_and_add_greeted_user returned True,
\* then requests.post pushes the text; ok is whether the platform accepts it
LinePost(n, ok) ==
    /\ line_calls[n].pc = "post"
    /\ outbox' = IF ok
                 THEN outbox (+) SetToBag({Msg(line_calls[n].to, "line", line_calls[n].kind,
                                               FALSE, line_calls[n].ret, NoEvent)})
                 ELSE outbox
    /\ line_calls' = [line_calls EXCEPT ![n].pc = "done"]
    /\ UNCHANGED << line_greeted, greeted_users_lock >>
    /\ OtherLineState

----------------------------------------------------------------------------
(* Status queue consumer: consume_queue(queue_name) and its callback *)

Event(id, platform, chat, status, dev) ==
    [id |-> id, json |-> TRUE, platform |-> platform, chat_id |-> chat,
     device_status |-> status, device_id |-> dev, redelivered |-> FALSE]
Garbage(id) ==
    [id |-> id, json |-> FALSE, platform |-> NoneV, chat_id |-> NoneV,
     device_status |-> NoneV, device_id |-> NoneV, redelivered |-> FALSE]

\* a consumer with no delivery in hand
CbIdle == [pc |-> "idle", msg |-> Garbage(0), greeting |-> FALSE, success |-> TRUE]

\* a device-side producer publishes a body to consumer t's queue
Produce(t, m) ==
    /\ nextId < MaxEvents
    /\ nextId' = nextId + 1
    /\ queue' = [queue EXCEPT ![t] = Append(@, [m EXCEPT !.id = nextId + 1])]
    /\ UNCHANGED << bindings, client_pool, greeted_users, line_greeted, outbox, mqtt_log,
                    cb, settled, disp, nCalls, lastGet, lastText, device_log, link,
                    greeted_users_lock, line_calls, processed_messages >>

\* lines 94-108: the three validation returns
Valid_any_platform(m) == m.device_status # NoneV /\ m.chat_id # NoneV
Valid(m) ==
    /\ m.device_status # NoneV
    /\ m.chat_id # NoneV
    /\ m.platform \in {"telegram", "line"}

Settle(m, how, bound) == [msg |-> m, how |-> how, bound |-> bound]

\* line 111: greeting = ... if chat_id not in greeted_users else ""
GreetTest(g, chat) == chat \notin g

\* lines 112-113: if greeting: greeted_users.add(chat_id)
GreetAdd(g, chat, greeting) == IF greeting THEN g \cup {chat} ELSE g

\* line 78: channel.basic_qos(prefetch_count=1)
prefetch_count == 1

\* deliveries of consumer t that are not settled yet
\* (with auto_ack=True a delivery would count as settled on arrival)
Unsettled_auto_ack(t) == 0
Unsettled(t) == IF cb[t].pc = "idle" THEN 0 ELSE 1

\* basic_nack(requeue=...) as the settled record names it
NackHow_requeue(requeue) == "nack_requeue"
NackHow(requeue) == IF requeue THEN "nack_requeue" ELSE "nack"

\* line 143: the requeue argument of the nack after json.JSONDecodeError
DecodeErrorRequeue_true == TRUE
DecodeErrorRequeue == FALSE

\* line 146: the requeue argument of the nack after any other exception
HandlerErrorRequeue_true == TRUE
HandlerErrorRequeue == FALSE

\* lines 96, 101, 107: how a delivery that fails validation is settled (basic_ack)
ValidationFailureHow_requeue == "nack_requeue"
ValidationFailureHow == "ack"

\* the broker's queue after a delivery of m was settled: a requeued message is delivered again
AfterSettle(q, m, how) ==
    IF how = "nack_requeue" THEN << [m EXCEPT !.redelivered = TRUE] >> \o q ELSE q

----------------------------------------------------------------------------
(* Queue connection of a consumer thread: consume_queue and init_rabbitmq *)

\* depth at which CPython raises RecursionError (sys.getrecursionlimit() default)
RecursionLimit == 1000

Link(pc, cq, ir) == [pc |-> pc, cq |-> cq, ir |-> ir]

\* activations of consume_queue and init_rabbitmq nested on the consumer's thread
NestedCalls(l) == l.cq + l.ir

\* a self-call of line 70 or line 156 sits in an except block: a RecursionError raised by
\* it is not caught by any enclosing activation and ends the thread
Dead(l) == Link("dead", l.cq, l.ir)

\* lines 151-156: the connection is closed; after the backoff consume_queue calls itself
Restart(l) ==
    IF NestedCalls(l) + 1 > RecursionLimit THEN Dead(l) ELSE Link("connecting", l.cq + 1, 0)

\* lines 57-70: init_rabbitmq; on failure it sleeps and calls itself, on success every
\* activation of it returns and lines 77-150 declare the queue and start consuming
InitRabbitmq(l, ok) ==
    IF ok THEN Link("consuming", l.cq, 0)
    ELSE IF NestedCalls(l) + 1 > RecursionLimit THEN Dead(l)
    ELSE Link("connecting", l.cq, l.ir + 1)

\* lines 72-73 and 55-70: one connection attempt; ok is whether the broker accepts it
Connect(t, ok) ==
    /\ link[t].pc = "connecting"
    /\ link' = [link EXCEPT ![t] = InitRabbitmq(@, ok)]
    /\ UNCHANGED << bindings, client_pool, greeted_users, line_greeted, outbox, mqtt_log,
                    queue, cb, settled, nextId, disp, nCalls, lastGet, lastText, device_log,
                    greeted_users_lock, line_calls, processed_messages >>

\* the connection of consumer t is lost; the broker puts its unsettled delivery back at
\* the head of the queue, marked redelivered
ConnectionLost(t) ==
    /\ link[t].pc = "consuming"
    /\ link' = [link EXCEPT ![t].pc = "lost"]
    /\ queue' = [queue EXCEPT ![t] =
                    IF cb[t].pc = "idle" THEN @
                    ELSE << [cb[t].msg EXCEPT !.redelivered = TRUE] >> \o @]
    /\ UNCHANGED << bindings, client_pool, greeted_users, line_greeted, outbox, mqtt_log,
                    cb, settled, nextId, disp, nCalls, lastGet, lastText, device_log,
                    greeted_users_lock, line_calls, processed_messages >>

\* line 150: start_consuming raises on the lost connection while no callback runs
StartConsumingRaises(t) ==
    /\ link[t].pc = "lost"
    /\ cb[t].pc = "idle"
    /\ link' = [link EXCEPT ![t] = Restart(@)]
    /\ UNCHANGED << bindings, client_pool, greeted_users, line_greeted, outbox, mqtt_log,
                    queue, cb, settled, nextId, disp, nCalls, lastGet, lastText, device_log,
                    greeted_users_lock, line_calls, processed_messages >>

----------------------------------------------------------------------------
(* The callback of consume_queue *)

\* lines 80-111: delivery, json.loads, validation, and the membership test of line 111
CbReceive(t) ==
    /\ link[t].pc = "consuming"
    /\ Unsettled(t) < prefetch_count
    /\ queue[t] # << >>
    /\ LET m == Head(queue[t]) IN
        IF ~m.json
        THEN /\ settled' = settled \cup {Settle(m, NackHow(DecodeErrorRequeue), {})}
             /\ queue' = [queue EXCEPT ![t] = AfterSettle(Tail(@), m, NackHow(DecodeErrorRequeue))]
             /\ cb' = cb
        ELSE IF ~Valid(m)
        THEN /\ settled' = settled \cup {Settle(m, ValidationFailureHow, {})}
             /\ queue' = [queue EXCEPT ![t] = AfterSettle(Tail(@), m, ValidationFailureHow)]
             /\ cb' = cb
        ELSE /\ settled' = settled
             /\ queue' = [queue EXCEPT ![t] = Tail(@)]
             /\ cb' = [cb EXCEPT ![t] =
                         [pc |-> "greet", msg |-> m,
                          greeting |-> GreetTest(greeted_users, m.chat_id),
                          success |-> TRUE]]
    /\ UNCHANGED << bindings, client_pool, greeted_users, line_greeted, outbox, mqtt_log,
                    nextId, disp, nCalls, lastGet, lastText, device_log, link,
                    greeted_users_lock, line_calls, processed_messages >>

\* lines 112-119: insertion into greeted_users, then the send to the originator; ok is
\* whether send_message returned True (it catches every exception and returns False)
CbGreetSend(t, ok) ==
    /\ cb[t].pc = "greet"
    /\ LET m == cb[t].msg
           sm == send_message(outbox, line_greeted, m.chat_id, m.platform, "is_now",
                              cb[t].greeting, EvOf(m))
       IN /\ greeted_users' = GreetAdd(greeted_users, m.chat_id, cb[t].greeting)
          /\ outbox' = IF ok THEN sm.outbox ELSE outbox
          /\ line_greeted' = IF ok THEN sm.lg ELSE line_greeted
    /\ cb' = [cb EXCEPT ![t].pc = "fanout", ![t].success = ok]
    /\ UNCHANGED << bindings, client_pool, mqtt_log, queue, settled, nextId, disp,
                    nCalls, lastGet, lastText, device_log, link,
                    greeted_users_lock, line_calls, processed_messages >>

\* lines 134-138: one send per bound user outside notified_users
RECURSIVE SendAll(_, _, _, _, _)
SendAll(ob, lg, todo, platform, ev) ==
    IF todo = {} THEN [outbox |-> ob, lg |-> lg]
    ELSE LET to == CHOOSE x \in todo : TRUE
             sm == send_message(ob, lg, to, platform, "set_to", FALSE, ev)
         IN SendAll(sm.outbox, sm.lg, todo \ {to}, platform, ev)

\* line 125: device.group_id and device.group_members on the Device built at line 123
GroupCheckRaises == ~({"group_id", "group_members"} \subseteq DeviceAttrs)

\* lines 121-138: who is sent "has been set to": nobody if line 125 raises, else the
\* bound users outside notified_users = {chat_id}
FanOutPlan_everyone(bound, chat) == [raised |-> FALSE, others |-> bound]
FanOutPlan(bound, chat) ==
    IF GroupCheckRaises THEN [raised |-> TRUE, others |-> {}]
    ELSE [raised |-> FALSE, others |-> bound \ {chat}]

\* lines 121-146: Device(...), group members, bound users, basic_ack; any exception
\* is caught at line 144 and the delivery is nacked without requeue. On a lost connection
\* basic_ack and basic_nack raise: nothing is settled and the exception leaves the callback
\* and start_consuming (lines 151-156)
CbFanOut(t) ==
    /\ cb[t].pc = "fanout"
    /\ LET m == cb[t].msg
           bound == Get(bindings, m.device_id)
       IN \E ok \in BOOLEAN :
          LET raises == DeviceInitRaises(client_pool, NoneV, ok)
                            \/ FanOutPlan(bound, m.chat_id).raised
              how == IF raises THEN NackHow(HandlerErrorRequeue) ELSE "ack"
              sends == SendAll(outbox, line_greeted, FanOutPlan(bound, m.chat_id).others,
                               m.platform, EvOf(m))
          IN /\ client_pool' = PoolAfter(client_pool, NoneV, ok)
             /\ outbox' = IF raises THEN outbox ELSE sends.outbox
             /\ line_greeted' = IF raises THEN line_greeted ELSE sends.lg
             /\ IF link[t].pc = "consuming"
                THEN /\ settled' = settled \cup {Settle(m, how, bound)}
                     /\ queue' = [queue EXCEPT ![t] = AfterSettle(@, m, how)]
                     /\ link' = link
                ELSE /\ link' = [link EXCEPT ![t] = Restart(@)]
                     /\ UNCHANGED << settled, queue >>
    /\ cb' = [cb EXCEPT ![t] = CbIdle]
    /\ UNCHANGED << bindings, greeted_users, mqtt_log, nextId, disp, nCalls, lastGet,
                    lastText, device_log,
                    greeted_users_lock, line_calls, processed_messages >>

----------------------------------------------------------------------------
(* Device-side handlers: esp32_device of esp32_iot_device.py and pi_device of *)
(* raspberrypi_iot_device.py, each subscribed on the device transport and      *)
(* publishing StatusEvents to the queue broker                                  *)

Handlers == {"esp32", "raspberrypi"}

\* ESP32Device("LivingRoomLight", config.DEVICE_ID) and
\* RaspberryPiDevice("LivingRoomLight", device_id="raspberrypi_light_001")
HandlerDevice(h) == IF h = "esp32" THEN DEVICE_ID ELSE "raspberrypi_light_001"

TransportVerbs == {"enable", "disable", "get_status"}

\* ESP32Device.on_mqtt_connect: subscribe("{manufacturer}/{device_type}/#");
\* RaspberryPiDevice.on_connect: the three command topics of its manufacturer/device_type
Subscribed(h, topic) ==
    /\ topic[1] = h
    /\ topic[2] = DeviceType(HandlerDevice(h))
    /\ h = "raspberrypi" => topic[3] \in TransportVerbs

\* whether the handler calls the device API for the message. ESP32Device.on_mqtt_message
\* looks at the end of the topic only; RaspberryPiDevice.on_message returns when the
\* payload's device_id is not its own and then wants topic and command to agree
Executes(h, m) ==
    IF h = "esp32" THEN m.topic[3] \in TransportVerbs
    ELSE /\ m.device_id = HandlerDevice(h)
         /\ \/ m.topic[3] = "enable" /\ m.command = "on"
            \/ m.topic[3] = "disable" /\ m.command = "off"
            \/ m.topic[3] = "get_status" /\ m.command = "get_status"

\* the status the handler reports after the device API answered
StatusOf(h, verb) ==
    IF h = "esp32" THEN (IF verb = "disable" THEN "off" ELSE "on")
    ELSE (IF verb = "disable" THEN "disabled" ELSE "enabled")

\* notify_status: the exchange and routing key of basic_publish, or no publish at all.
\* ESP32Device: the default exchange with the platform's queue name, nothing for another
\* platform; RaspberryPiDevice: exchange im_exchange, key platform/chat_id/status_update
NoPublish == [exchange |-> NoneV, key |-> << >>]
StatusPublish(h, platform, chat) ==
    IF h = "esp32"
    THEN (IF platform \in {"line", "telegram"}
          THEN [exchange |-> "", key |-> << platform >>] ELSE NoPublish)
    ELSE [exchange |-> "im_exchange",
          key |-> IF chat # NoneV THEN << platform, chat, "status_update" >>
                  ELSE << platform >>]

\* consume_queue lines 77-78 declare the queue and bind it to no exchange: the broker binds
\* it to the default exchange under its own name and to nothing else
ExchangeBindings == {}
KeyMatches(pattern, key) ==
    /\ Len(pattern) = Len(key)
    /\ \A i \in 1..Len(key) : pattern[i] \in {"*", key[i]}

\* the queues the broker routes a publish to; a publish that matches no binding is dropped
Route(pub) ==
    IF pub.exchange = "" THEN {t \in Consumers : << t >> = pub.key}
    ELSE {b.queue : b \in {x \in ExchangeBindings :
                               x.exchange = pub.exchange /\ KeyMatches(x.pattern, pub.key)}}

\* messages of another publisher on the shared transport: commands for other devices of
\* the topic classes the two handlers subscribe to
ForeignMessages ==
    { [topic |-> <<"esp32", "light", "enable">>, command |-> "on", chat_id |-> "u2",
       platform |-> "telegram", device_id |-> "esp32_light_009"],
      [topic |-> <<"raspberrypi", "light", "enable">>, command |-> "on", chat_id |-> "u2",
       platform |-> "telegram", device_id |-> "raspberrypi_light_009"] }

\* what the transport delivers: the accepted publishes of the dispatcher and the others
Arrivals == {e.msg : e \in {x \in BagToSet(mqtt_log) : x.accepted}} \cup ForeignMessages

\* one run of a handler: the n-th delivery of m to h, handled at clock reading time
Handled(h, m, n, time, executed, event, routed) ==
    [handler |-> h, msg |-> m, n |-> n, time |-> time, executed |-> executed,
     event |-> event, routed |-> routed]

RECURSIVE AppendTo(_, _, _)
AppendTo(q, ts, m) ==
    IF ts = {} THEN q
    ELSE LET t == CHOOSE x \in ts : TRUE
         IN AppendTo([q EXCEPT ![t] = Append(@, m)], ts \ {t}, m)

\* how often the transport has delivered m to handler h
Deliveries(h, m) == Cardinality({r \in device_log : r.handler = h /\ r.msg = m})

\* time.time() of the latest message a handler got, 0 before the first one
LatestTime ==
    IF device_log = {} THEN 0
    ELSE CHOOSE t \in {r.time : r \in device_log} : \A r \in device_log : r.time <= t

\* what time.time() may return for the next message: the reading of the latest message
\* again (the clock has not advanced since) or a later one
Readings == {LatestTime, LatestTime + 1}

\* RaspberryPiDevice.on_message line 96:
\* message_id = f"{chat_id}_{command}_{device_id}_{time.time()}"
MessageId(m, now) ==
    [chat_id |-> m.chat_id, command |-> m.command, device_id |-> m.device_id, time |-> now]

\* lines 100-103: processed_messages.add(message_id), and clear() above 1000 entries
ProcessedLimit == 1000
Remember(pm, id) ==
    IF Cardinality(pm \cup {id}) > ProcessedLimit THEN {} ELSE pm \cup {id}

\* on_message / on_mqtt_message of handler h for transport message m; ok is whether the
\* device API answers the request (and, for the ESP32, the signature could be made); now
\* is the reading of time.time() at line 96. The Raspberry Pi handler returns at line 99
\* when the message id is in processed_messages; the ESP32 handler reads no clock and
\* keeps no such set
DeviceHandle(h, m, ok, now) ==
    /\ Subscribed(h, m.topic)
    /\ Deliveries(h, m) < MaxDeliveries
    /\ LET duplicate == h = "raspberrypi" /\ MessageId(m, now) \in processed_messages
           executed == ~duplicate /\ Executes(h, m) /\ ok
           pub == StatusPublish(h, m.platform, m.chat_id)
           emits == executed /\ pub # NoPublish
           ev == Event(nextId + 1, m.platform, m.chat_id, StatusOf(h, m.topic[3]),
                       HandlerDevice(h))
       IN /\ emits => nextId < MaxEvents
          /\ nextId' = IF emits THEN nextId + 1 ELSE nextId
          /\ queue' = IF emits THEN AppendTo(queue, Route(pub), ev) ELSE queue
          /\ processed_messages' =
                IF h = "raspberrypi" /\ ~duplicate
                THEN Remember(processed_messages, MessageId(m, now))
                ELSE processed_messages
          /\ device_log' = device_log \cup
                {Handled(h, m, Deliveries(h, m) + 1, IF h = "raspberrypi" THEN now ELSE 0,
                         executed,
                         IF emits THEN nextId + 1 ELSE 0,
                         IF emits THEN Route(pub) ELSE {})}
    /\ UNCHANGED << bindings, client_pool, greeted_users, line_greeted, outbox, mqtt_log,
                    cb, settled, disp, nCalls, lastGet, link, lastText,
                    greeted_users_lock, line_calls >>

----------------------------------------------------------------------------
(* State after start-up: the default Device exists, its client is pooled under "default", *)
(* each consumer thread has entered consume_queue and has no connection yet               *)

Init ==
    /\ bindings = << >>
    /\ client_pool = [k \in {"default"} |-> TRUE]
    /\ greeted_users = {}
    /\ line_greeted = {}
    /\ outbox = EmptyBag
    /\ mqtt_log = EmptyBag
    /\ queue = [t \in Consumers |-> << >>]
    /\ cb = [t \in Consumers |-> CbIdle]
    /\ settled = {}
    /\ nextId = 0
    /\ disp = [w \in Dispatchers |-> DispIdle]
    /\ nCalls = 0
    /\ lastGet = [d |-> NoneV, ret |-> {}]
    /\ link = [t \in Consumers |-> Link("connecting", 1, 0)]
    /\ lastText = [w \in Dispatchers |-> << >>]
    /\ device_log = {}
    /\ greeted_users_lock = 0
    /\ line_calls = << >>
    /\ processed_messages = {}

----------------------------------------------------------------------------
(* Specifications *)

DispatchStep ==
    \E w \in Dispatchers, chat \in Chats, text \in Texts :
        IoTParse_Message(w, chat, HomePlatform(chat), text)
BindStep ==
    \E chat \in Chats :
        IoTParse_Message("w1", chat, HomePlatform(chat), <<"/bind", DEVICE_ID>>)
BindCreateStep == \E w \in Dispatchers : BindCreate(w)
BindAddStep == \E w \in Dispatchers : BindAdd(w)
GetBoundUsersStep == \E d \in {DEVICE_ID, UnknownDevice} : GetBoundUsers(d)
ProduceValid ==
    \E t \in Consumers, chat \in Chats, dev \in EventDevices :
        Produce(t, Event(0, HomePlatform(chat), chat, "on", dev))
WebhookStep ==
    \E chat \in Chats, text \in {<<"turn", "on">>, <<"turn", "off", "toaster_9">>,
                                   <<"/bind", "toaster_9">>} :
        webhook("w1", chat, text)
\* texts handed to /SendMsg: a help reply, and the text for another recipient of an event
RelayStep == \E to \in Chats, kind \in {"help", "set_to"} : send_message_route(to, kind)
CbReceiveStep == \E t \in Consumers : CbReceive(t)
CbGreetSendStep == \E t \in Consumers : CbGreetSend(t, TRUE)
\* the broker is reachable
ConnectOkStep == \E t \in Consumers : Connect(t, TRUE)
CbFanOutStep == \E t \in Consumers : CbFanOut(t)

\* the dispatcher and the binding registry under concurrent callers
NextDispatch ==
    \/ DispatchStep
    \/ BindCreateStep
    \/ BindAddStep
    \/ GetBoundUsersStep
SpecDispatch == Init /\ [][NextDispatch]_vars

\* binds and the fan-out of valid status events by the two queue consumers
NextFanOut ==
    \/ ConnectOkStep
    \/ BindStep
    \/ BindCreate("w1")
    \/ BindAdd("w1")
    \/ ProduceValid
    \/ CbReceiveStep
    \/ CbGreetSendStep
    \/ CbFanOutStep
SpecFanOut == Init /\ [][NextFanOut]_vars

\* the LINE process: its webhook and /SendMsg route next to the queue consumers
NextRelay ==
    \/ ConnectOkStep
    \/ WebhookStep
    \/ RelayStep
    \/ ProduceValid
    \/ CbReceiveStep
    \/ CbGreetSendStep
    \/ CbFanOutStep
SpecRelay == Init /\ [][NextRelay]_vars

\* bodies found on the status queue: a valid event, an event of an unsupported platform, one
\* without chat_id, one without device_status, and a body that is not JSON
QueueBodies ==
    { Event(0, "line", "u1", "on", DEVICE_ID),
      Event(0, "sms", "u1", "on", DEVICE_ID),
      Event(0, "line", NoneV, "on", DEVICE_ID),
      Event(0, "line", "u1", NoneV, DEVICE_ID),
      Garbage(0) }

ProduceAny == \E m \in QueueBodies : Produce(LineConsumer, m)
BindOtherStep == IoTParse_Message("w1", "u2", HomePlatform("u2"), <<"/bind", DEVICE_ID>>)
\* a connection attempt; consecutive refusals are capped
ConnectStep ==
    \E ok \in BOOLEAN :
        /\ ok \/ link[LineConsumer].ir < MaxDrops
        /\ Connect(LineConsumer, ok)
\* a connection loss; the losses of one run are capped
ConnectionLostStep == link[LineConsumer].cq <= MaxDrops /\ ConnectionLost(LineConsumer)
CbGreetSendAny == \E ok \in BOOLEAN : CbGreetSend(LineConsumer, ok)

\* one queue consumer with its connection, send failures and binds of another chat
NextConsume ==
    \/ ConnectStep
    \/ ConnectionLostStep
    \/ StartConsumingRaises(LineConsumer)
    \/ ProduceAny
    \/ CbReceive(LineConsumer)
    \/ CbGreetSendAny
    \/ CbFanOut(LineConsumer)
    \/ BindOtherStep
    \/ BindCreate("w1")
    \/ BindAdd("w1")
SpecConsume == Init /\ [][NextConsume]_vars

\* the connection of one consumer thread against a broker that comes and goes
NextReconnect ==
    \/ \E ok \in BOOLEAN : Connect(LineConsumer, ok)
    \/ ConnectionLost(LineConsumer)
    \/ StartConsumingRaises(LineConsumer)
SpecReconnect == Init /\ [][NextReconnect]_vars

\* message texts as users type them: the forms of the command grammar, some in mixed case
\* and with whitespace around them, and texts outside the grammar
RawTexts ==
    { <<"hi">>, <<"HI", " ">>, <<"hello">>, <<"/start">>,
      <<"turn", "on">>, <<" ", "Turn", "ON", " ">>, <<"turn", "on", "ESP32_FAN_002">>,
      <<"turn", "on", "the", "light">>,
      <<"/enable">>, <<"/Enable", "raspberrypi_light_001">>,
      <<"turn", "off">>, <<"TURN", "Off", " ", " ">>, <<"/disable">>,
      <<"turn", "off", "the", "light">>,
      <<"/setstatus", "on">>,
      <<"/status">>, <<"/getstatus">>, <<"get", "status">>,
      <<"Get", "STATUS", "Esp32_Light_001">>,
      <<"/bind", "esp32_light_001">>, <<"/BIND", "ESP32_FAN_002", " ">>,
      <<"blah">>, <<"turn", "off", "toaster_9">> }

ParseStep ==
    \E chat \in Chats, m \in RawTexts : IoTParse_Message("w1", chat, HomePlatform(chat), m)

\* one dispatcher thread fed with raw message texts
NextParse ==
    \/ ParseStep
    \/ BindCreate("w1")
    \/ BindAdd("w1")
SpecParse == Init /\ [][NextParse]_vars

\* commands of both chats for the default device and for the Raspberry Pi light
CommandStep ==
    \E chat \in Chats, m \in {<<"turn", "on">>, <<"turn", "off", "raspberrypi_light_001">>} :
        IoTParse_Message("w1", chat, HomePlatform(chat), m)
\* every transport message reaches a handler once, each at a clock reading of its own
DeviceStep ==
    \E h \in Handlers, m \in Arrivals, ok \in BOOLEAN :
        Deliveries(h, m) = 0 /\ DeviceHandle(h, m, ok, LatestTime + 1)

\* the whole loop: dispatcher, device transport, device handlers, queue broker, consumers
NextDevice ==
    \/ CommandStep
    \/ DeviceStep
    \/ ConnectOkStep
    \/ CbReceiveStep
    \/ CbGreetSendStep
    \/ CbFanOutStep
SpecDevice == Init /\ [][NextDevice]_vars

\* one dispatcher thread with every kind of text next to the LINE queue consumer
AnyTextStep ==
    \E chat \in Chats, text \in Texts : IoTParse_Message("w1", chat, HomePlatform(chat), text)
ProduceLine == Produce(LineConsumer, Event(0, "line", "u1", "on", DEVICE_ID))
NextRegistry ==
    \/ AnyTextStep
    \/ BindCreate("w1")
    \/ BindAdd("w1")
    \/ Connect(LineConsumer, TRUE)
    \/ ProduceLine
    \/ CbReceive(LineConsumer)
    \/ CbGreetSend(LineConsumer, TRUE)
    \/ CbFanOut(LineConsumer)
SpecRegistry == Init /\ [][NextRegistry]_vars

\* commands for the Raspberry Pi light
PiCommandStep ==
    \E chat \in Chats, m \in {<<"turn", "on", "raspberrypi_light_001">>,
                               <<"turn", "off", "raspberrypi_light_001">>} :
        IoTParse_Message("w1", chat, HomePlatform(chat), m)
\* the transport delivers a message to the Raspberry Pi handler, for the first time or again
DeliverStep ==
    \E m \in Arrivals, ok \in BOOLEAN, now \in Readings :
        DeviceHandle("raspberrypi", m, ok, now)

\* the device handlers on a transport that may deliver a message more than once
NextDuplicate ==
    \/ PiCommandStep
    \/ DeliverStep
SpecDuplicate == Init /\ [][NextDuplicate]_vars

LineSendEnterStep == \E to \in Chats, kind \in {"help", "set_to"} : LineSendEnter(to, kind)
LockAcquireStep == \E n \in DOMAIN line_calls : LockAcquire(n)
GreetedTestStep == \E n \in DOMAIN line_calls : GreetedTest(n)
GreetedAddReturnStep == \E n \in DOMAIN line_calls : GreetedAddReturn(n)
LinePostStep == \E n \in DOMAIN line_calls, ok \in BOOLEAN : LinePost(n, ok)

\* concurrent callers of the LINE send primitive
NextGreet ==
    \/ LineSendEnterStep
    \/ LockAcquireStep
    \/ GreetedTestStep
    \/ GreetedAddReturnStep
    \/ LinePostStep
SpecGreet == Init /\ [][NextGreet]_vars

----------------------------------------------------------------------------
(* Properties *)

RECURSIVE BagSum(_, _)
BagSum(S, B) ==
    IF S = {} THEN 0
    ELSE LET x == CHOOSE y \in S : TRUE IN CopiesIn(x, B) + BagSum(S \ {x}, B)

Sent == BagToSet(outbox)
IsNowTo(p, c) == {m \in Sent : m.kind = "is_now" /\ m.platform = p /\ m.to = c}
SetToFor(c, id) == {m \in Sent : m.kind = "set_to" /\ m.to = c /\ m.ev.id = id}
Greets(m) == m.cbGreet \/ m.relayGreet

\* C1: for every subscriber (platform, chat_id), at most one of the status notifications
\* sent to it over all processed StatusEvents carries a greeting prefix.
C1_GreetingOnce ==
    \A p \in DispatchPlatforms, c \in Chats :
        BagSum({m \in IsNowTo(p, c) : Greets(m)}, outbox) <= 1

\* callbacks that have decided to greet chat c: those between lines 111 and 113 holding a
\* greeting, and those whose greeted notification is already out
GreetDecisions(c) ==
    Cardinality({t \in Consumers :
                    cb[t].pc = "greet" /\ cb[t].greeting /\ cb[t].msg.chat_id = c})
    + BagSum({m \in Sent : m.kind = "is_now" /\ m.to = c /\ m.cbGreet}, outbox)
GreetTested(c) ==
    \/ \E t \in Consumers : cb[t].pc = "greet" /\ cb[t].msg.chat_id = c
    \/ \E m \in Sent : m.kind = "is_now" /\ m.to = c

\* C2: the greeting decision is a test-and-set: among the callbacks that have tested
\* greeted_users for one chat_id, exactly one decides to greet, whatever the interleaving
\* of the two consumers.
C2_GreetTestAndSet == \A c \in Chats : GreetTested(c) => GreetDecisions(c) = 1

\* C3: no "has been set to" text of a StatusEvent is ever sent to that event's originator.
C3_Exclusion == \A m \in Sent : m.kind = "set_to" => m.to # m.ev.orig

\* a StatusEvent was processed whose originator is bound to its device next to another user
C3_Witness ==
    \E s \in settled :
        /\ Valid(s.msg)
        /\ s.msg.chat_id \in s.bound
        /\ s.bound # {s.msg.chat_id}

\* C4: every processed valid StatusEvent is acknowledged, its originator was sent "is now"
\* exactly once and every other user bound to its device "has been set to" exactly once.
C4_FanOutComplete ==
    \A s \in settled :
        Valid(s.msg) =>
            /\ s.how = "ack"
            /\ BagSum({m \in IsNowTo(s.msg.platform, s.msg.chat_id) : m.ev.id = s.msg.id},
                      outbox) = 1
            /\ \A u \in s.bound \ {s.msg.chat_id} :
                   BagSum(SetToFor(u, s.msg.id), outbox) = 1

\* C5: a "has been set to" text carries no greeting; only chats that were sent a reply or an
\* originator notification are in a greeted set; and a chat that has been an originator has
\* been sent a notification with the callback's greeting.
C5_OthersNotGreeted ==
    /\ \A m \in Sent : m.kind = "set_to" => ~Greets(m)
    /\ \A c \in greeted_users : \E m \in Sent : m.kind = "is_now" /\ m.to = c
    /\ \A c \in line_greeted : \E m \in Sent : m.kind # "set_to" /\ m.to = c
    /\ \A m \in Sent : m.kind = "is_now" =>
           \E g \in Sent : g.kind = "is_now" /\ g.to = m.to /\ g.cbGreet

\* the call of dispatcher w is the latest one, has returned, and ran with no other
\* dispatcher inside IoTParse_Message
RanAlone(w) ==
    /\ disp[w].pc = "idle"
    /\ disp[w].n = nCalls
    /\ nCalls > 0
    /\ disp[w].solo
    /\ \A x \in Dispatchers \ {w} : disp[x].pc = "idle"

BindOk == Result(TRUE, "Bind")

\* C6: a bind of a subscriber that is already bound to the device returns success and
\* leaves the device's subscribers as they were; a first bind returns success as well.
C6_BindIdempotent ==
    \A w \in Dispatchers :
        (RanAlone(w) /\ disp[w].kind = "Bind" /\ disp[w].target \in SUPPORTED_DEVICES) =>
            /\ disp[w].chat \in disp[w].pre =>
                   (disp[w].result = BindOk /\ Get(bindings, disp[w].target) = disp[w].pre)
            /\ disp[w].result.tag # "Error processing command" =>
                   (disp[w].result = BindOk /\ disp[w].chat \in Get(bindings, disp[w].target))

\* a bind of an already bound subscriber has returned
C6_Witness ==
    \E w \in Dispatchers :
        /\ RanAlone(w)
        /\ disp[w].kind = "Bind"
        /\ disp[w].chat \in disp[w].pre
        /\ disp[w].result = BindOk

\* C7: when two binds to one device have both returned success, both subscribers are in
\* the device's set.
C7_NoLostBind ==
    \A w, x \in Dispatchers :
        (/\ w # x
         /\ disp[w].pc = "idle" /\ disp[w].result = BindOk
         /\ disp[x].pc = "idle" /\ disp[x].result = BindOk
         /\ disp[w].target = disp[x].target) =>
            {disp[w].chat, disp[x].chat} \subseteq Get(bindings, disp[w].target)

IsGet == lastGet' # lastGet

\* C8: get_bound_users leaves the registry as it is, and for a device without an entry it
\* returns the empty set.
C8_GetUnknownDevice ==
    [][IsGet =>
          /\ bindings' = bindings
          /\ (lastGet'.d \notin DOMAIN bindings => lastGet'.ret = {})]_vars

\* get_bound_users has returned for a device that has no entry
C8_Witness ==
    /\ lastGet.d # NoneV
    /\ lastGet.d \notin DOMAIN bindings
    /\ lastGet.ret = {}

\* dispatcher w enters IoTParse_Message in this step
Enters(w) == nCalls' = nCalls + 1 /\ disp'[w].n = nCalls + 1

\* C9: the handling of an Enable, Disable, GetStatus or Bind text whose device id is outside
\* the catalog returns failure in the step that enters it, and publishes nothing, creates
\* no transport client and leaves the registry alone.
C9_UnknownDeviceRejected ==
    [][\A w \in Dispatchers :
          (/\ Enters(w)
           /\ disp'[w].kind \in {"Enable", "Disable", "GetStatus", "Bind"}
           /\ disp'[w].target \notin SUPPORTED_DEVICES) =>
              /\ disp'[w].pc = "idle"
              /\ ~disp'[w].result.success
              /\ mqtt_log' = mqtt_log
              /\ client_pool' = client_pool
              /\ bindings' = bindings]_vars

\* C10: "/bind D" with D outside the catalog is rejected as an invalid device id, never
\* enters bind_user, and no key and no subscriber is added to the registry.
C10_BindUnknownDevice ==
    [][\A w \in Dispatchers :
          (/\ Enters(w)
           /\ disp'[w].kind = "Bind"
           /\ disp'[w].target \notin SUPPORTED_DEVICES) =>
              /\ disp'[w].pc = "idle"
              /\ disp'[w].result = Result(FALSE, "Invalid device_id")
              /\ DOMAIN bindings' = DOMAIN bindings
              /\ \A d \in DOMAIN bindings : bindings'[d] = bindings[d]]_vars

\* "/bind toaster_9" was rejected while the registry holds a binding
C10_Witness ==
    \E w \in Dispatchers :
        /\ disp[w].pc = "idle"
        /\ disp[w].kind = "Bind"
        /\ disp[w].target = UnknownDevice
        /\ ~disp[w].result.success
        /\ \E d \in DOMAIN bindings : bindings[d] # {}

\* C11: a dispatch of a text that parses to Unknown returns "Invalid command" in the step
\* that enters it and changes neither the transport log, nor the registry, nor the client
\* pool.
C11_UnknownNoSideEffects ==
    [][\A w \in Dispatchers :
          (Enters(w) /\ disp'[w].kind = "Unknown") =>
              /\ disp'[w].pc = "idle"
              /\ disp'[w].result = Result(FALSE, "Invalid command")
              /\ mqtt_log' = mqtt_log
              /\ bindings' = bindings
              /\ client_pool' = client_pool]_vars

\* the callback of consumer t settles the valid event it holds in this step
SettlesHeld(t) == cb[t].pc = "fanout" /\ cb'[t].pc = "idle" /\ link[t].pc = "consuming"
BoundNow(t) == Get(bindings, cb[t].msg.device_id)

\* C12: a delivery whose body is not JSON is nacked without requeue in the step that
\* receives it: it is gone from the queue, nothing is sent, and the consumer stays
\* connected with no delivery in hand, ready for the next message.
C12_MalformedRejected ==
    [][\A t \in Consumers :
          (/\ cb[t].pc = "idle" /\ queue[t] # << >> /\ ~Head(queue[t]).json
           /\ queue'[t] # queue[t] /\ settled' # settled) =>
              /\ settled' = settled \cup {Settle(Head(queue[t]), "nack", {})}
              /\ queue'[t] = Tail(queue[t])
              /\ outbox' = outbox
              /\ cb'[t].pc = "idle"
              /\ link'[t].pc = "consuming"]_vars

\* a body that is not JSON was rejected and a message behind it was processed
C12_Witness ==
    \E s, n \in settled :
        /\ ~s.msg.json /\ s.how = "nack"
        /\ n.msg.id > s.msg.id

\* C13: when the callback settles a decoded, valid event that it does not acknowledge, it
\* rejects it with requeue=False: the message does not return to the queue, the consumer
\* stays connected and free for the next delivery, and no delivery is ever requeued.
C13_HandlerFailureRejected ==
    [][\A t \in Consumers :
          SettlesHeld(t) =>
              /\ Settle(cb[t].msg, "ack", BoundNow(t)) \notin settled' =>
                     Settle(cb[t].msg, "nack", BoundNow(t)) \in settled'
              /\ queue'[t] = queue[t]
              /\ link'[t].pc = "consuming"
              /\ \A s \in settled' : s.how # "nack_requeue"]_vars

\* an event whose handling raised was rejected and a message behind it was processed
C13_Witness ==
    \E s, n \in settled :
        /\ Valid(s.msg) /\ s.how = "nack"
        /\ n.msg.id > s.msg.id

C16_BestEffort ==
    [][\A t \in Consumers :
          (SettlesHeld(t) /\ ~cb[t].success) =>
              /\ \A u \in BoundNow(t) \ {cb[t].msg.chat_id} :
                     \E m \in BagToSet(outbox') :
                         m.kind = "set_to" /\ m.to = u /\ m.ev.id = cb[t].msg.id
              /\ \E s \in settled' : s.msg.id = cb[t].msg.id /\ s.how = "ack"]_vars

\* C17: the consumer never gives up: after any number of failed connection attempts and
\* lost connections its thread is still connecting or consuming.
C17_NeverGivesUp == \A t \in Consumers : link[t].pc # "dead"

\* C18: no event is acknowledged twice, and a consumer that lost its connection is
\* reconnecting or consuming again.
C18_AckOnceAndResume ==
    /\ \A s, n \in settled : (s.msg.id = n.msg.id /\ s.how = "ack" /\ n.how = "ack") => s = n
    /\ \A t \in Consumers : link[t].cq > 1 => link[t].pc \in {"connecting", "consuming", "lost"}

\* C19: no recipient is sent the notification of one event twice.
C19_AtMostOneFanOut ==
    \A c \in Chats, id \in 1..nextId :
        BagSum({m \in Sent : m.to = c /\ m.ev.id = id}, outbox) <= 1

\* the callback of consumer t starts on a delivery in this step
Starts(t) == cb'[t].pc = "greet" /\ (cb[t].pc # "greet" \/ cb'[t].msg # cb[t].msg)

\* C20: a consumer starts on a delivery only when it holds no unsettled delivery, the
\* delivery is the head of its queue, and every event published to the queue before it
\* has been settled.
C20_OneAtATime ==
    [][\A t \in Consumers :
          Starts(t) =>
              /\ cb[t].pc = "idle"
              /\ cb'[t].msg = Head(queue[t])
              /\ \A k \in 1..(cb'[t].msg.id - 1) : \E s \in settled : s.msg.id = k]_vars

\* a second event was started after the first one was settled
C20_Witness ==
    \E t \in Consumers :
        /\ cb[t].pc # "idle"
        /\ cb[t].msg.id > 1
        /\ \E s \in settled : Valid(s.msg) /\ s.msg.id < cb[t].msg.id

\* C21: a command dispatch that returns success has handed its message to a transport
\* client that accepted it; a publish that was not accepted is answered with a failure.
C21_PublishFailureReported ==
    [][\A w \in Dispatchers :
          (/\ Enters(w)
           /\ disp'[w].kind \in CommandKinds
           /\ disp'[w].result.success) =>
              \E e \in BagToSet(mqtt_log') :
                  /\ CopiesIn(e, mqtt_log') > CopiesIn(e, mqtt_log)
                  /\ e.accepted]_vars

\* topic class and payload command of the transport contract
TopicClassOf(d) ==
    CASE d = "esp32_light_001" -> <<"esp32", "light">>
      [] d = "esp32_fan_002" -> <<"esp32", "fan">>
      [] d = "raspberrypi_light_001" -> <<"raspberrypi", "light">>
      [] d = "raspberrypi_fan_002" -> <<"raspberrypi", "fan">>
ContractVerb(kind) ==
    CASE kind = "Enable" -> "enable" [] kind = "Disable" -> "disable"
      [] kind = "GetStatus" -> "get_status"
ContractCommand(kind) ==
    CASE kind = "Enable" -> "on" [] kind = "Disable" -> "off"
      [] kind = "GetStatus" -> "get_status"

\* C23: a dispatch of Enable, Disable or GetStatus for a catalog device, once its transport
\* client exists, makes exactly one publish call: topic manufacturer/device_type/verb of the
\* device, payload command on, off or get_status, the caller's chat_id and platform, and
\* the device id.
C23_TopicAndPayload ==
    [][\A w \in Dispatchers :
          (/\ Enters(w)
           /\ disp'[w].kind \in CommandKinds
           /\ disp'[w].target \in SUPPORTED_DEVICES
           /\ disp'[w].result.tag # "Error processing command") =>
              \E e \in BagToSet(mqtt_log') :
                  /\ mqtt_log' = mqtt_log (+) SetToBag({e})
                  /\ e.msg = [topic |-> TopicClassOf(disp'[w].target)
                                           \o << ContractVerb(disp'[w].kind) >>,
                              command |-> ContractCommand(disp'[w].kind),
                              chat_id |-> disp'[w].chat,
                              platform |-> disp'[w].platform,
                              device_id |-> disp'[w].target]]_vars

\* commands for two devices of different topic classes were published
C23_Witness ==
    \E e, f \in BagToSet(mqtt_log) :
        /\ e.msg.topic = <<"esp32", "fan", "enable">>
        /\ f.msg.topic[1] = "raspberrypi"
        /\ f.msg.chat_id # e.msg.chat_id

\* letters that differ in case only
CaseClasses ==
    { {"turn", "Turn", "TURN"}, {"on", "On", "ON"}, {"off", "Off", "OFF"},
      {"get", "Get", "GET"}, {"status", "Status", "STATUS"}, {"hi", "Hi", "HI"},
      {"/bind", "/BIND"}, {"/enable", "/Enable"}, {"/status", "/STATUS"},
      {"esp32_fan_002", "ESP32_FAN_002"}, {"esp32_light_001", "Esp32_Light_001"} }
SameLetters(a, b) == a = b \/ \E c \in CaseClasses : {a, b} \subseteq c

\* r is c in some letter case with whitespace before and after it
Variant(r, c) ==
    \E i, j \in 0..Len(r) :
        /\ Len(r) = i + Len(c) + j
        /\ \A k \in 1..i : r[k] = Blank
        /\ \A k \in 1..j : r[i + Len(c) + k] = Blank
        /\ \A k \in 1..Len(c) : SameLetters(r[i + k], c[k])

\* recognized command texts, lower case, nothing around them
CommandTexts ==
    { <<"hi">>, <<"turn", "on">>, <<"turn", "on", "esp32_fan_002">>,
      <<"/enable", "raspberrypi_light_001">>, <<"turn", "off">>, <<"/status">>,
      <<"get", "status", "esp32_light_001">>, <<"/bind", "esp32_fan_002">> }

\* C24: every text that differs from a recognized command text only in letter case and in
\* whitespace before and after it parses to the variant and the target device of that
\* command text.
C24_CaseAndWhitespace ==
    \A w \in Dispatchers : \A c \in CommandTexts :
        (lastText[w] # << >> /\ Variant(lastText[w], c)) =>
            /\ disp[w].kind = KindOf(c)
            /\ disp[w].kind # "Unknown"
            /\ disp[w].target = TargetOf(c, DEVICE_ID)

\* a text in mixed case with whitespace on both sides was parsed as a command
C24_Witness ==
    \E w \in Dispatchers :
        /\ lastText[w] = <<" ", "Turn", "ON", " ">>
        /\ disp[w].kind = "Enable"
        /\ disp[w].pc = "idle"

\* the forms of the specified grammar, by variant (after lower-casing and trimming)
GrammarForms(k) ==
    CASE k = "Enable" ->
            { <<"/enable">>, <<"turn", "on">>, <<"turn", "on", "the", "light">>,
              <<"turn", "on", "esp32_fan_002">>, <<"/enable", "raspberrypi_light_001">> }
      [] k = "Disable" ->
            { <<"/disable">>, <<"turn", "off">>, <<"turn", "off", "the", "light">>,
              <<"turn", "off", "toaster_9">> }
      [] k = "SetStatus" -> { <<"/setstatus", "on">>, <<"/setstatus", "off">> }
      [] k = "GetStatus" ->
            { <<"/status">>, <<"/getstatus">>, <<"get", "status">>,
              <<"get", "status", "esp32_light_001">> }
      [] k = "Bind" -> { <<"/bind", "esp32_light_001">>, <<"/bind", "esp32_fan_002">> }
      [] k = "Help" -> { <<"hi">>, <<"hello">>, <<"/start">> }
      [] k = "Unknown" -> { <<"blah">> }
Variants == {"Enable", "Disable", "SetStatus", "GetStatus", "Bind", "Help", "Unknown"}

\* C25: every form of the specified grammar parses to its variant.
C25_Grammar ==
    \A w \in Dispatchers : \A k \in Variants :
        (lastText[w] # << >> /\ disp[w].text \in GrammarForms(k)) => disp[w].kind = k

\* the device id a command text supplies after its command words, if any
CommandWords(text) == IF text[1] \in {"turn", "get"} THEN 2 ELSE 1
SuppliedId(text) == IF Len(text) > CommandWords(text) THEN text[Len(text)] ELSE NoneV

\* C26: an Enable, Disable or GetStatus command without a device id addresses the default
\* device, one with a device id addresses that id; the publish call carries that target.
C26_DefaultDevice ==
    [][\A w \in Dispatchers :
          (Enters(w) /\ disp'[w].kind \in CommandKinds) =>
              /\ SuppliedId(disp'[w].text) = NoneV => disp'[w].target = DEVICE_ID
              /\ SuppliedId(disp'[w].text) # NoneV =>
                     disp'[w].target = SuppliedId(disp'[w].text)
              /\ \A e \in BagToSet(mqtt_log') :
                     CopiesIn(e, mqtt_log') > CopiesIn(e, mqtt_log) =>
                         e.msg.device_id = disp'[w].target]_vars

\* a command without a device id and one for another device than the default were published
C26_Witness ==
    \E e, f \in BagToSet(mqtt_log) :
        /\ e.msg.device_id = DEVICE_ID /\ e.msg.command = "on"
        /\ f.msg.device_id = "esp32_fan_002"

\* C27: a consumer whose first connection attempt failed is not running: it has aborted.
C27_FirstConnectFatal ==
    \A t \in Consumers :
        ~(link[t].cq = 1 /\ link[t].ir > 0 /\ link[t].pc \in {"connecting", "consuming"})

\* C28: for every processed valid event, every other subscriber bound to its device was
\* sent "has been set to" through the platform that subscriber bound from.
C28_CrossPlatform ==
    \A s \in settled :
        Valid(s.msg) =>
            \A u \in s.bound \ {s.msg.chat_id} :
                \E m \in Sent :
                    /\ m.kind = "set_to" /\ m.to = u /\ m.ev.id = s.msg.id
                    /\ m.platform = HomePlatform(u)

C29_DeviceFiltering ==
    \A r \in device_log :
        r.msg.device_id # HandlerDevice(r.handler) => (~r.executed /\ r.event = 0)

\* the status queue, the running callback or the settled set holds the event with this id
AtConsumer(id) ==
    \/ \E t \in Consumers : \E i \in 1..Len(queue[t]) : queue[t][i].id = id
    \/ \E t \in Consumers : cb[t].pc # "idle" /\ cb[t].msg.id = id
    \/ \E x \in settled : x.msg.id = id

\* C30: every StatusEvent a device handler published is in a queue a status consumer
\* consumes, or has been delivered to its callback.
C30_EndToEnd == \A r \in device_log : r.event # 0 => AtConsumer(r.event)

\* the calls of check_and_add_greeted_user(c) that have returned, and those that returned True
Returned(c) ==
    {n \in DOMAIN line_calls : line_calls[n].to = c /\ line_calls[n].pc \in {"post", "done"}}
ReturnedTrue(c) == {n \in Returned(c) : line_calls[n].ret}

\* C31: among the calls of check_and_add_greeted_user for one chat_id that have returned,
\* exactly one returned True, under every interleaving; at most one call is inside the
\* locked section, and a call that has reached its network send does not hold the lock.
C31_TestAndSet ==
    /\ \A c \in Chats : Returned(c) # {} => Cardinality(ReturnedTrue(c)) = 1
    /\ Cardinality({n \in DOMAIN line_calls : line_calls[n].pc \in {"test", "add"}}) <= 1
    /\ \A n \in DOMAIN line_calls :
           line_calls[n].pc \in {"post", "done"} => greeted_users_lock # n

\* two overlapping calls for one chat: the one that returned False has already sent while
\* the one that returned True has not, and a third call is inside the locked section
C31_Witness ==
    \E a, b, c \in DOMAIN line_calls :
        /\ line_calls[a].to = line_calls[b].to
        /\ line_calls[a].pc = "post" /\ line_calls[a].ret
        /\ line_calls[b].pc = "done" /\ ~line_calls[b].ret
        /\ line_calls[c].pc = "test" /\ greeted_users_lock = c


\* C32: the Raspberry Pi handler executes a command message at most once, however often the
\* transport delivers it, and so emits at most one StatusEvent for it.
C32_DuplicateSuppressed ==
    \A r, x \in device_log :
        (/\ r.handler = "raspberrypi" /\ x.handler = "raspberrypi"
         /\ r.msg = x.msg
         /\ r.executed /\ x.executed) => r = x

\* C33: the nesting on a consumer's thread stays within a constant, however many connection
\* attempts failed and however often the consumer restarted: one activation of
\* consume_queue and at most one self-call of init_rabbitmq.
C33_BoundedStack == \A t \in Consumers : link[t].cq <= 1 /\ link[t].ir <= 1

\* C34: a subscriber that is in the set of a device is in it in every later state.
C34_NeverExpires ==
    [][\A d \in DOMAIN bindings :
          d \in DOMAIN bindings' /\ bindings[d] \subseteq bindings'[d]]_vars

\* C36: every client in client_pool has completed a successful connect.
C36_PoolConnected == \A k \in DOMAIN client_pool : client_pool[k]

\* dispatcher w is inside bind_user for device d on behalf of chat c
InBind(w, d, c) ==
    /\ disp[w].kind = "Bind"
    /\ disp[w].pc \in {"bind_create", "bind_add"}
    /\ disp[w].target = d
    /\ disp[w].chat = c

\* C35: every key of the registry is in the catalog; a chat enters the set of device d only
\* in the step in which its own '/bind d' returns success; and the registry changes only in
\* a step of a bind, so no other dispatch and no step of the fan-out callback changes it.
C35_RegistryWellFormed ==
    [][/\ DOMAIN bindings' \subseteq SUPPORTED_DEVICES
       /\ \A d \in DOMAIN bindings' : \A c \in bindings'[d] \ Get(bindings, d) :
              \E w \in Dispatchers :
                  InBind(w, d, c) /\ disp'[w].pc = "idle" /\ disp'[w].result = BindOk
       /\ bindings' # bindings =>
              \E w \in Dispatchers : \E d \in SUPPORTED_DEVICES :
                  InBind(w, d, disp[w].chat) /\ disp'[w].pc # disp[w].pc]_vars

\* a chat is bound, an event was fanned out and settled, and the last dispatch was a command
\* that was accepted
C35_Witness ==
    /\ \E d \in DOMAIN bindings : bindings[d] # {}
    /\ \E x \in settled : Valid(x.msg)
    /\ disp["w1"].kind \in CommandKinds /\ disp["w1"].result.success

\* the callback of consumer t ends its fan-out in this step
EndsFanOut(t) == cb[t].pc = "fanout" /\ cb'[t].pc = "idle"

\* everyone outside the originator in the set is sent "has been set to" for the event
AllNotified(users, m, ob) ==
    \A u \in users \ {m.chat_id} :
        \E x \in BagToSet(ob) : x.kind = "set_to" /\ x.to = u /\ x.ev.id = m.id

\* C37: when the fan-out of an event for device D ends on a live connection while a bind
\* for D is inside bind_user, the event is acknowledged and every subscriber that was bound
\* when the fan-out read the registry has been notified.
C37_BindDuringFanOut ==
    [][\A t \in Consumers :
          (/\ EndsFanOut(t)
           /\ link[t].pc = "consuming"
           /\ \E w \in Dispatchers : InBind(w, cb[t].msg.device_id, disp[w].chat)) =>
              /\ Settle(cb[t].msg, "ack", Get(bindings, cb[t].msg.device_id)) \in settled'
              /\ AllNotified(Get(bindings, cb[t].msg.device_id), cb[t].msg, outbox')]_vars

\* an event that fails validation as the claim lists it
FailsValidation(m) ==
    m.json /\ (m.device_status = NoneV \/ m.chat_id = NoneV
                  \/ m.platform \notin {"telegram", "line"})

\* consumer t takes the head of its queue in this step and settles it at once
SettlesAtReceive(t) ==
    /\ cb[t].pc = "idle" /\ cb'[t].pc = "idle"
    /\ queue[t] # << >>
    /\ settled' # settled

\* C38: an event that fails validation never gets past the validation of the callback, and
\* the step that settles it sends nothing and leaves both greeted sets and the registry as
\* they are.
C38_InvalidNoEffects ==
    [][\A t \in Consumers :
          /\ cb'[t].pc # "idle" => ~FailsValidation(cb'[t].msg)
          /\ (SettlesAtReceive(t) /\ FailsValidation(Head(queue[t]))) =>
                 /\ outbox' = outbox
                 /\ greeted_users' = greeted_users
                 /\ line_greeted' = line_greeted
                 /\ bindings' = bindings]_vars

\* an event of an unsupported platform was settled while nothing has been sent and nobody
\* has been greeted
C38_Witness ==
    /\ \E x \in settled : x.msg.json /\ x.msg.platform = "sms"
    /\ outbox = EmptyBag
    /\ greeted_users = {} /\ line_greeted = {}

\* the delivery that the callback of consumer t finishes in this step, if it finishes one:
\* at once in the step that receives it, or at the end of the fan-out
Finishes(t, m) ==
    \/ cb[t].pc = "idle" /\ cb'[t].pc = "idle" /\ queue[t] # << >> /\ m = Head(queue[t])
          /\ nextId' = nextId /\ link' = link /\ queue' # queue
    \/ EndsFanOut(t) /\ m = cb[t].msg

\* the step settles m once, by basic_ack or by basic_nack(requeue=False)
SettledOnce(m) ==
    /\ Cardinality(settled' \ settled) = 1
    /\ \A x \in settled' \ settled : x.msg = m /\ x.how \in {"ack", "nack"}

\* C39 as claimed: every delivery the callback finishes is settled exactly once in the step
\* that finishes it, by basic_ack or basic_nack(requeue=False), on every path.
C39_SettledOnce ==
    [][\A t \in Consumers : \A m \in {cb[t].msg} \cup {queue[t][i] : i \in 1..Len(queue[t])} :
          Finishes(t, m) => SettledOnce(m)]_vars

\* C39: every delivery the callback finishes while its connection is up is settled exactly
\* once, by basic_ack or basic_nack(requeue=False), and no delivery is settled twice; a
\* delivery whose connection was lost during the callback is settled by neither.
C39_SettledOnceWhileConnected ==
    [][\A t \in Consumers : \A m \in {cb[t].msg} \cup {queue[t][i] : i \in 1..Len(queue[t])} :
          Finishes(t, m) =>
              IF link[t].pc = "consuming" THEN SettledOnce(m) ELSE settled' = settled]_vars

\* a redelivered valid event was rejected after its handler raised, and a body that is not
\* JSON was rejected as well
C39_Witness ==
    /\ \E x \in settled : Valid(x.msg) /\ x.msg.redelivered /\ x.how = "nack"
    /\ \E x \in settled : ~x.msg.json /\ x.how = "nack"

====
